---------------------------- MODULE Spec2Model ----------------------------
(***************************************************************************)
(* PPO training scripts of run-rl: src/ppo/ppo_mujoco_humanoid.py (the     *)
(* Gaussian policy) and src/ppo/ppo_mujoco_humanoid_beta.py (the Beta      *)
(* policy).                                                                *)
(*                                                                         *)
(* Spec     the __main__ driver of both scripts: argument handling, the   *)
(*          update loop, the rollout loop, the epoch/minibatch loop, the   *)
(*          KL break, the metrics, the save and the test rollouts.         *)
(* SpecFair the same driver, run as one thread that keeps taking steps.    *)
(* SpecAgent Agent.get_action_and_value of the Beta script: the non-finite *)
(*          check, the Beta distribution and the action rescaling.         *)
(* SpecAdv  the advantage estimator (GAE and plain-return branches) run    *)
(*          on a rollout buffer drawn from bounded sets.                   *)
(* SpecLoss the value loss of one minibatch, inputs drawn from bounded     *)
(*          sets.                                                          *)
(* SpecOpt  the shuffled minibatch partition of one update cycle.          *)
(*                                                                         *)
(* Floats are modelled by integers (exact on the small values used) and   *)
(* by fractions [num, den] where the code divides.                         *)
(***************************************************************************)
EXTENDS Integers, Sequences, FiniteSets, TLC

(***************************************************************************)
(* Bounds of the model.                                                    *)
(***************************************************************************)
MaxSteps == 2
MaxMinibatches == 3
MaxTotalTimesteps == 4
MaxEpochs == 2
(* the estimator's inputs: the longest rollout and the largest buffer *)
(* (num_envs * num_steps) drawn                                       *)
MaxAdvSteps == 3
MaxBatch == 3
(* the largest batch the minibatch partition is enumerated for *)
MaxOptBatch == 4
(* the value loss's inputs: the largest flattened batch and the largest value *)
MaxLossBatch == 2
MaxValue == 2

(* the Beta agent's arithmetic: numbers are kept to 1/Resolution, and the action *)
(* bounds lie within -MaxBound..MaxBound of those units                         *)
Resolution == 4
MaxBound == 2

(* range(10) of the evaluation loop *)
NumTests == 10

Variants == {"gaussian", "beta"}
EnvCounts == {1, 2}
LearningRates == {3}
KlVals == {0, 1}
(* --target-kl: <<>> is None, <<k>> is the threshold k *)
TargetKls == {<<>>, <<0>>}
(* rewards, value estimates and bootstrap values of the estimator's inputs *)
AdvVals == {0, 1}
(* --gamma and --gae-lambda *)
Coefs == {0, 1}
(* --clip-coef *)
ClipCoefs == {1}

VARIABLES
    variant,        \* which script runs
    args,           \* the namespace parse_args returns
    pc,             \* position of __main__
    error,          \* the exception that ended the run, "" if none
    num_updates,
    update,
    lr,             \* optimizer.param_groups[0]['lr'], a fraction
    step,
    global_step,
    next_obs,       \* per environment: id of the latest observation
    next_done,      \* per environment: latest done flag
    obs,            \* buffer column obs[t][n] (observation ids, 0 = torch.zeros)
    dones,          \* buffer column dones[t][n]
    stamp,          \* stamp[t]: the update cycle that last wrote buffer row t (0 = never)
    epoch,
    start,
    approx_kl,      \* <<>> while unbound, <<k>> once a minibatch computed it
    explained_var,  \* <<>> while unbound, <<u>>: computed from cycle u's values/returns
    params,         \* number of optimizer.step() calls applied to the agent
    cycle_steps,    \* optimizer.step() calls of the current update cycle
    broke,          \* the KL break ended the current cycle's epoch loop
    emitted,        \* update cycles whose metrics were all written
    scalars,        \* add_scalar calls made by the current cycle's metrics block
    saved,          \* torch.save calls
    test_i,         \* evaluation rollouts finished
    last_ret,       \* what the latest envs.step returned: [obs, done, truncated],
                    \* <<>> before any
    term,           \* term[t][n]: the done flag envs.step returned for the action of
                    \* step t of the current rollout
    reported,       \* environments whose episode telemetry the latest step wrote
    test_t,         \* parity of the env.step calls made by the current Beta test rollout
    logprobs,       \* buffer column logprobs[t]: recorded as the parameter version the
                    \* policy had when it computed them, -1 = torch.zeros
    logratio,       \* <<d>>: newlogprob - b_logprobs of the latest minibatch, <<>> before
    clipfrac,       \* <<f>>: the entry the latest minibatch appended to clipfracs
    grad_ops,       \* the calls the latest minibatch made to update the parameters
    \* Agent.get_action_and_value of the Beta script
    alpha,          \* "finite", "nan" or "inf"
    beta,
    action_space_low,
    action_space_high,
    sample,         \* <<x>>: what probs.sample() returned, <<>> before
    action,         \* <<a>>: the action returned, <<>> before
    logprob_arg,    \* <<y>>: the argument handed to probs.log_prob, <<>> before
    probs,          \* <<alpha, beta>> once Beta(alpha, beta) was constructed
    logged,         \* what the non-finite check wrote to the log, "" if nothing
    \* the advantage estimator
    rewards,        \* buffer column rewards[t][n]
    values,         \* buffer column values[t][n]
    next_value,     \* agent.get_value(next_obs), per environment
    advantages,
    returns,
    lastgaelam,
    nextnonterminal,
    t,              \* loop variable of the backward pass
    \* the minibatch partition
    b_inds,         \* the index array, a sequence over 0..batch_size-1
    mb_inds,        \* the current minibatch's slice of b_inds
    seen,           \* the slices taken so far in the current epoch
    \* the value loss of one minibatch
    newvalue,       \* the critic's output for the minibatch rows
    b_returns,      \* flattened returns, indexed 0..batch_size-1
    b_values,       \* flattened values, indexed 0..batch_size-1
    v_loss          \* a fraction, <<>> while unbound

driverVars == <<variant, args, pc, error, num_updates, update, lr, step, global_step,
                next_obs, next_done, obs, dones, stamp, epoch, start, approx_kl,
                explained_var, params, cycle_steps, broke, emitted, scalars, saved, test_i,
                last_ret>>

estVars == <<rewards, values, next_value, advantages, returns, lastgaelam,
             nextnonterminal, t>>

optVars == <<b_inds, mb_inds, seen>>

lossVars == <<newvalue, b_returns, b_values, v_loss>>

rollVars == <<term, reported>>

stepVars == <<logprobs, logratio, clipfrac, grad_ops>>

testVars == <<test_t>>

agentVars == <<alpha, beta, action_space_low, action_space_high, sample, action,
               logprob_arg, probs, logged>>

vars == <<driverVars, estVars, optVars, lossVars, rollVars, stepVars, testVars, agentVars>>

(***************************************************************************)
(* parse_args                                                              *)
(***************************************************************************)
(* The options of the command line, at the values a specification keeps    *)
(* for the options it does not vary (target_kl None; the toggles True).    *)
Defaults ==
    [num_envs |-> 1, num_steps |-> 1, num_minibatches |-> 1, total_timesteps |-> 1,
     update_epochs |-> 1, target_kl |-> <<>>, anneal_lr |-> TRUE, learning_rate |-> 3,
     track |-> TRUE, train_flag |-> TRUE, gae |-> TRUE, gamma |-> 1, gae_lambda |-> 1,
     clip_vloss |-> TRUE, clip_coef |-> 1]

BatchSize(num_envs, num_steps) == num_envs * num_steps

MinibatchSize(batch_size, num_minibatches) == batch_size \div num_minibatches

ParseArgs(opt) ==
    [batch_size |-> BatchSize(opt.num_envs, opt.num_steps),
     minibatch_size |-> MinibatchSize(BatchSize(opt.num_envs, opt.num_steps),
                                      opt.num_minibatches)] @@ opt

(* the Beta script has no --train-flag option *)
ArgSpace(v) ==
    { ParseArgs([Defaults EXCEPT !.num_envs = ne, !.num_steps = ns,
                                 !.num_minibatches = nm, !.total_timesteps = tt,
                                 !.update_epochs = ue, !.target_kl = kl,
                                 !.anneal_lr = an, !.learning_rate = lrate,
                                 !.track = tr, !.train_flag = tf]) :
        ne \in EnvCounts, ns \in 1..MaxSteps, nm \in 1..MaxMinibatches,
        tt \in 0..MaxTotalTimesteps, ue \in 1..MaxEpochs, kl \in TargetKls,
        an \in BOOLEAN, lrate \in LearningRates, tr \in BOOLEAN,
        tf \in IF v = "gaussian" THEN BOOLEAN ELSE {TRUE} }

HasTargetKl == Len(args.target_kl) = 1

Envs == 1..args.num_envs
Rows == 0..(args.num_steps - 1)

(***************************************************************************)
(* Learning-rate annealing                                                 *)
(***************************************************************************)
RatEq(a, b) == a.num * b.den = b.num * a.den

(* a faulty variant of Frac: the fraction counted from the cycle number itself *)
FracCountsCurrentCycle(u, n) == [num |-> n - u, den |-> n]

Frac(u, n) == [num |-> n - (u - 1), den |-> n]

LrNow(u, n, lrate) == [num |-> Frac(u, n).num * lrate, den |-> Frac(u, n).den]

(***************************************************************************)
(* Environment and rollout helpers                                         *)
(***************************************************************************)
ResetObs(n) == 1

StepObs(o) == o + 1

(* a faulty variant of StoreRow: the row is stored one index too far (wrapping) *)
StoreRowShifted(column, i, row) ==
    [column EXCEPT ![IF i + 1 \in DOMAIN column THEN i + 1 ELSE 0] = row]

StoreRow(column, i, row) == [column EXCEPT ![i] = row]

(* a faulty variant of DoneFlag: a truncated episode sets the flag as well *)
DoneFlagWithTruncation(terminated, truncated) ==
    [n \in DOMAIN terminated |-> IF truncated[n] = 1 THEN 1 ELSE terminated[n]]

(* next_obs, reward, done, _, infos = envs.step(...): of the five outputs the      *)
(* fourth, truncated, is bound to _ and next_done is built from done alone         *)
DoneFlag(terminated, truncated) == terminated

(* a faulty variant of RowFlags: the row gets the flag the step's own action returned *)
RowFlagsAfterStep(pending, returned) == returned

(* dones[step] = next_done runs before envs.step: the row gets the flag that was   *)
(* pending when the step began, not the one its action returns                     *)
RowFlags(pending, returned) == pending

(* The log-probabilities the policy with parameter version p gives to stored       *)
(* observations and actions, identified by that version: the same version gives    *)
(* the same numbers, another version may give others.                              *)
LogProb(p) == p

(* a faulty variant of NewLogProb: evaluated after the minibatch's optimizer step *)
NewLogProbAfterStep(p) == LogProb(p + 1)

(* newlogprob: the minibatch evaluates the stored actions under the current        *)
(* parameters, before its own optimizer step                                       *)
NewLogProb(p) == LogProb(p)

Abs(x) == IF x < 0 THEN -x ELSE x

(* logratio = newlogprob - b_logprobs: 0 when both come from the same version,     *)
(* otherwise any of the magnitudes 0 and 1                                         *)
LogRatios(new, old) == IF \A i \in DOMAIN old : old[i] = new THEN {0} ELSE KlVals

(* ratio = logratio.exp(), to the nearest integer *)
Ratio(d) == IF d = 0 THEN 1 ELSE 3

(* approx_kl = ((ratio - 1) - logratio).mean() *)
ApproxKl(d) == (Ratio(d) - 1) - d

(* ((ratio - 1.0).abs() > args.clip_coef).float().mean() *)
ClipFrac(d, clip_coef) == IF Abs(Ratio(d) - 1) > clip_coef THEN 1 ELSE 0

(* a faulty variant of GradientStep: the gradients are not zeroed *)
GradientStepWithoutZeroGrad == <<"backward", "clip_grad_norm_", "step">>

(* the calls that end a minibatch *)
GradientStep == <<"zero_grad", "backward", "clip_grad_norm_", "step">>

(* infos["final_info"]: the environments whose item is a dict holding 'episode', *)
(* those whose episode ended at this step (terminated or truncated)             *)
FinalInfo(terminated, truncated) ==
    { n \in DOMAIN terminated : terminated[n] = 1 \/ truncated[n] = 1 }

(* the telemetry loop writes the first such item and breaks *)
ReportedEpisodes(final_info) ==
    IF final_info = {} THEN {}
    ELSE { CHOOSE n \in final_info : \A m \in final_info : n <= m }

(***************************************************************************)
(* __main__                                                                *)
(***************************************************************************)
(* The variables a specification does not use stay at these values. *)
EstIdle ==
    /\ rewards = <<>>
    /\ values = <<>>
    /\ next_value = <<>>
    /\ advantages = <<>>
    /\ returns = <<>>
    /\ lastgaelam = <<>>
    /\ nextnonterminal = <<>>
    /\ t = 0

OptIdle ==
    /\ b_inds = <<>>
    /\ mb_inds = <<>>
    /\ seen = <<>>

LossIdle ==
    /\ newvalue = <<>>
    /\ b_returns = <<>>
    /\ b_values = <<>>
    /\ v_loss = <<>>

RollIdle ==
    /\ term = <<>>
    /\ reported = {}

StepIdle ==
    /\ logprobs = <<>>
    /\ logratio = <<>>
    /\ clipfrac = <<>>
    /\ grad_ops = <<>>

AgentIdle ==
    /\ alpha = "finite"
    /\ beta = "finite"
    /\ action_space_low = 0
    /\ action_space_high = 0
    /\ sample = <<>>
    /\ action = <<>>
    /\ logprob_arg = <<>>
    /\ probs = <<>>
    /\ logged = ""

Init ==
    /\ variant \in Variants
    /\ args \in ArgSpace(variant)
    /\ pc = "main"
    /\ error = ""
    /\ num_updates = 0
    /\ update = 0
    /\ lr = [num |-> 0, den |-> 1]
    /\ step = 0
    /\ global_step = 0
    /\ next_obs = <<>>
    /\ next_done = <<>>
    /\ obs = <<>>
    /\ dones = <<>>
    /\ stamp = <<>>
    /\ epoch = 0
    /\ start = 0
    /\ approx_kl = <<>>
    /\ explained_var = <<>>
    /\ params = 0
    /\ cycle_steps = 0
    /\ broke = FALSE
    /\ emitted = 0
    /\ scalars = 0
    /\ saved = 0
    /\ test_i = 0
    /\ last_ret = <<>>
    /\ EstIdle
    /\ OptIdle
    /\ LossIdle
    /\ RollIdle
    /\ StepIdle
    /\ test_t = 0
    /\ AgentIdle

(* The Gaussian script overwrites args.train_flag before it branches. *)
TrainFlagAfterMain(v, a) == IF v = "gaussian" THEN FALSE ELSE a.train_flag

TakesTrainingPath(v, a) ==
    IF v = "gaussian" THEN a.track /\ TrainFlagAfterMain(v, a) ELSE a.track

Main ==
    /\ pc = "main"
    /\ args' = [args EXCEPT !.train_flag = TrainFlagAfterMain(variant, args)]
    /\ pc' = IF TakesTrainingPath(variant, args) THEN "setup"
             ELSE IF variant = "gaussian" THEN "test" ELSE "done"
    /\ UNCHANGED <<estVars, optVars, lossVars>>
    /\ UNCHANGED <<variant, error, num_updates, update, lr, step, global_step, next_obs,
                   next_done, obs, dones, stamp, epoch, start, approx_kl, explained_var,
                   params, cycle_steps, broke, emitted, scalars, saved, test_i, last_ret>>
    /\ UNCHANGED <<rollVars, stepVars, testVars, agentVars>>

TrainSetup ==
    /\ pc = "setup"
    /\ lr' = [num |-> args.learning_rate, den |-> 1]
    /\ obs' = [i \in Rows |-> [n \in Envs |-> 0]]
    /\ dones' = [i \in Rows |-> [n \in Envs |-> 0]]
    /\ stamp' = [i \in Rows |-> 0]
    /\ term' = [i \in Rows |-> [n \in Envs |-> 0]]
    /\ logprobs' = [i \in Rows |-> -1]
    /\ global_step' = 0
    /\ next_obs' = [n \in Envs |-> ResetObs(n)]
    /\ next_done' = [n \in Envs |-> 0]
    /\ num_updates' = args.total_timesteps \div args.batch_size
    /\ update' = 0
    /\ pc' = "update"
    /\ UNCHANGED <<estVars, optVars, lossVars>>
    /\ UNCHANGED <<variant, args, error, step, epoch, start, approx_kl, explained_var,
                   params, cycle_steps, broke, emitted, scalars, saved, test_i, last_ret>>
    /\ UNCHANGED <<reported, logratio, clipfrac, grad_ops, testVars, agentVars>>

NextUpdate ==
    /\ pc = "update"
    /\ update < num_updates
    /\ update' = update + 1
    /\ lr' = IF args.anneal_lr
             THEN LrNow(update + 1, num_updates, args.learning_rate)
             ELSE lr
    /\ step' = 0
    /\ pc' = "rollout"
    /\ UNCHANGED <<estVars, optVars, lossVars>>
    /\ UNCHANGED <<variant, args, error, num_updates, global_step, next_obs, next_done,
                   obs, dones, stamp, epoch, start, approx_kl, explained_var, params,
                   cycle_steps, broke, emitted, scalars, saved, test_i, last_ret>>
    /\ UNCHANGED <<rollVars, stepVars, testVars, agentVars>>

RolloutStep ==
    /\ pc = "rollout"
    /\ step < args.num_steps
    /\ global_step' = global_step + 1 * args.num_envs
    /\ obs' = StoreRow(obs, step, next_obs)
    /\ stamp' = StoreRow(stamp, step, update)
    /\ next_obs' = [n \in Envs |-> StepObs(next_obs[n])]
    /\ \E terminated \in [Envs -> {0, 1}], truncated \in [Envs -> {0, 1}] :
         /\ next_done' = DoneFlag(terminated, truncated)
         /\ last_ret' = [obs |-> next_obs', done |-> terminated, truncated |-> truncated]
         /\ reported' = ReportedEpisodes(FinalInfo(terminated, truncated))
         /\ term' = StoreRow(term, step, terminated)
    /\ dones' = StoreRow(dones, step, RowFlags(next_done, next_done'))
    /\ logprobs' = StoreRow(logprobs, step, LogProb(params))
    /\ step' = step + 1
    /\ pc' = IF step + 1 < args.num_steps THEN "rollout" ELSE "estimate"
    /\ UNCHANGED <<estVars, optVars, lossVars>>
    /\ UNCHANGED <<variant, args, error, num_updates, update, lr, epoch, start, approx_kl,
                   explained_var, params, cycle_steps, broke, emitted, scalars, saved,
                   test_i>>
    /\ UNCHANGED <<logratio, clipfrac, grad_ops, testVars, agentVars>>

Estimate ==
    /\ pc = "estimate"
    /\ epoch' = 0
    /\ cycle_steps' = 0
    /\ broke' = FALSE
    /\ pc' = "epochs"
    /\ UNCHANGED <<estVars, optVars, lossVars>>
    /\ UNCHANGED <<variant, args, error, num_updates, update, lr, step, global_step,
                   next_obs, next_done, obs, dones, stamp, start, approx_kl,
                   explained_var, params, emitted, scalars, saved, test_i, last_ret>>
    /\ UNCHANGED <<rollVars, stepVars, testVars, agentVars>>

EpochBegin ==
    /\ pc = "epochs"
    /\ epoch < args.update_epochs
    /\ args.minibatch_size /= 0
    /\ start' = 0
    /\ pc' = "minibatch"
    /\ UNCHANGED <<estVars, optVars, lossVars>>
    /\ UNCHANGED <<variant, args, error, num_updates, update, lr, step, global_step,
                   next_obs, next_done, obs, dones, stamp, epoch, approx_kl,
                   explained_var, params, cycle_steps, broke, emitted, scalars, saved,
                   test_i, last_ret>>
    /\ UNCHANGED <<rollVars, stepVars, testVars, agentVars>>

(* range(0, batch_size, 0) raises ValueError *)
EpochRangeError ==
    /\ pc = "epochs"
    /\ epoch < args.update_epochs
    /\ args.minibatch_size = 0
    /\ error' = "ValueError"
    /\ pc' = "failed"
    /\ UNCHANGED <<estVars, optVars, lossVars>>
    /\ UNCHANGED <<variant, args, num_updates, update, lr, step, global_step, next_obs,
                   next_done, obs, dones, stamp, epoch, start, approx_kl, explained_var,
                   params, cycle_steps, broke, emitted, scalars, saved, test_i, last_ret>>
    /\ UNCHANGED <<rollVars, stepVars, testVars, agentVars>>

EpochsExhausted ==
    /\ pc = "epochs"
    /\ epoch >= args.update_epochs
    /\ scalars' = 0
    /\ pc' = "metrics"
    /\ UNCHANGED <<estVars, optVars, lossVars>>
    /\ UNCHANGED <<variant, args, error, num_updates, update, lr, step, global_step,
                   next_obs, next_done, obs, dones, stamp, epoch, start, approx_kl,
                   explained_var, params, cycle_steps, broke, emitted, saved, test_i, last_ret>>
    /\ UNCHANGED <<rollVars, stepVars, testVars, agentVars>>

Minibatch ==
    /\ pc = "minibatch"
    /\ start < args.batch_size
    /\ \E d \in LogRatios(NewLogProb(params), logprobs) :
         /\ logratio' = <<d>>
         /\ approx_kl' = <<ApproxKl(d)>>
         /\ clipfrac' = <<ClipFrac(d, args.clip_coef)>>
    /\ grad_ops' = GradientStep
    /\ params' = params + 1
    /\ cycle_steps' = cycle_steps + 1
    /\ start' = start + args.minibatch_size
    /\ pc' = IF start + args.minibatch_size < args.batch_size THEN "minibatch"
             ELSE "epoch_end"
    /\ UNCHANGED <<estVars, optVars, lossVars>>
    /\ UNCHANGED <<variant, args, error, num_updates, update, lr, step, global_step,
                   next_obs, next_done, obs, dones, stamp, epoch, explained_var, broke,
                   emitted, scalars, saved, test_i, last_ret>>
    /\ UNCHANGED <<rollVars, logprobs, testVars, agentVars>>

KlExceeded == HasTargetKl /\ approx_kl[1] > args.target_kl[1]

KlBreak ==
    /\ pc = "epoch_end"
    /\ KlExceeded
    /\ broke' = TRUE
    /\ scalars' = 0
    /\ pc' = "metrics"
    /\ UNCHANGED <<estVars, optVars, lossVars>>
    /\ UNCHANGED <<variant, args, error, num_updates, update, lr, step, global_step,
                   next_obs, next_done, obs, dones, stamp, epoch, start, approx_kl,
                   explained_var, params, cycle_steps, emitted, saved, test_i, last_ret>>
    /\ UNCHANGED <<rollVars, stepVars, testVars, agentVars>>

EpochFinish ==
    /\ pc = "epoch_end"
    /\ ~KlExceeded
    /\ explained_var' = <<update>>
    /\ epoch' = epoch + 1
    /\ pc' = "epochs"
    /\ UNCHANGED <<estVars, optVars, lossVars>>
    /\ UNCHANGED <<variant, args, error, num_updates, update, lr, step, global_step,
                   next_obs, next_done, obs, dones, stamp, start, approx_kl, params,
                   cycle_steps, broke, emitted, scalars, saved, test_i, last_ret>>
    /\ UNCHANGED <<rollVars, stepVars, testVars, agentVars>>

(* add_scalar calls that precede the one reading explained_var *)
ScalarsBeforeExplainedVar == 7
(* add_scalar calls of a complete metrics block *)
ScalarsPerCycle == 9

EmitMetrics ==
    /\ pc = "metrics"
    /\ explained_var /= <<>>
    /\ scalars' = ScalarsPerCycle
    /\ emitted' = emitted + 1
    /\ pc' = "update"
    /\ UNCHANGED <<estVars, optVars, lossVars>>
    /\ UNCHANGED <<variant, args, error, num_updates, update, lr, step, global_step,
                   next_obs, next_done, obs, dones, stamp, epoch, start, approx_kl,
                   explained_var, params, cycle_steps, broke, saved, test_i, last_ret>>
    /\ UNCHANGED <<rollVars, stepVars, testVars, agentVars>>

(* explained_var is first bound at the end of an epoch that did not break *)
MetricsNameError ==
    /\ pc = "metrics"
    /\ explained_var = <<>>
    /\ scalars' = ScalarsBeforeExplainedVar
    /\ error' = "NameError"
    /\ pc' = "failed"
    /\ UNCHANGED <<estVars, optVars, lossVars>>
    /\ UNCHANGED <<variant, args, num_updates, update, lr, step, global_step, next_obs,
                   next_done, obs, dones, stamp, epoch, start, approx_kl, explained_var,
                   params, cycle_steps, broke, emitted, saved, test_i, last_ret>>
    /\ UNCHANGED <<rollVars, stepVars, testVars, agentVars>>

SaveModel ==
    /\ pc = "update"
    /\ update >= num_updates
    /\ saved' = saved + 1
    /\ pc' = IF variant = "beta" THEN "test" ELSE "done"
    /\ UNCHANGED <<estVars, optVars, lossVars>>
    /\ UNCHANGED <<variant, args, error, num_updates, update, lr, step, global_step,
                   next_obs, next_done, obs, dones, stamp, epoch, start, approx_kl,
                   explained_var, params, cycle_steps, broke, emitted, scalars, test_i, last_ret>>
    /\ UNCHANGED <<rollVars, stepVars, testVars, agentVars>>

(* Gaussian test(): a for loop of 3000 steps, one step of the model.  Beta test():  *)
(* while not done, one env.step per step of the model; done is the terminated      *)
(* output alone, the truncated output is dropped.                                  *)
TestRollout ==
    /\ pc = "test"
    /\ test_i < NumTests
    /\ IF variant = "gaussian"
       THEN /\ test_i' = test_i + 1
            /\ test_t' = 0
       ELSE \E done \in BOOLEAN :
              IF done THEN /\ test_i' = test_i + 1
                           /\ test_t' = 0
                      ELSE /\ test_i' = test_i
                           /\ test_t' = 1 - test_t
    /\ UNCHANGED <<estVars, optVars, lossVars>>
    /\ UNCHANGED <<variant, args, pc, error, num_updates, update, lr, step, global_step,
                   next_obs, next_done, obs, dones, stamp, epoch, start, approx_kl,
                   explained_var, params, cycle_steps, broke, emitted, scalars, saved, last_ret>>
    /\ UNCHANGED <<rollVars, stepVars, agentVars>>

TestsDone ==
    /\ pc = "test"
    /\ test_i = NumTests
    /\ pc' = "done"
    /\ UNCHANGED <<estVars, optVars, lossVars>>
    /\ UNCHANGED <<variant, args, error, num_updates, update, lr, step, global_step,
                   next_obs, next_done, obs, dones, stamp, epoch, start, approx_kl,
                   explained_var, params, cycle_steps, broke, emitted, scalars, saved,
                   test_i, last_ret>>
    /\ UNCHANGED <<rollVars, stepVars, testVars, agentVars>>

Next ==
    \/ Main
    \/ TrainSetup
    \/ NextUpdate
    \/ RolloutStep
    \/ Estimate
    \/ EpochBegin
    \/ EpochRangeError
    \/ EpochsExhausted
    \/ Minibatch
    \/ KlBreak
    \/ EpochFinish
    \/ EmitMetrics
    \/ MetricsNameError
    \/ SaveModel
    \/ TestRollout
    \/ TestsDone

Spec == Init /\ [][Next]_vars

(* The script is one thread that keeps running: whenever it can take a step it     *)
(* eventually takes one.  Nothing obliges the environment to report done.          *)
SpecFair == Init /\ [][Next]_vars /\ WF_vars(Next)

(***************************************************************************)
(* Properties of the driver (Spec)                                         *)
(***************************************************************************)
InCycle == pc \in {"rollout", "estimate", "epochs", "minibatch", "epoch_end", "metrics"}

RolloutFinished == pc \in {"estimate", "epochs", "minibatch", "epoch_end", "metrics"}

Indivisible == args.batch_size % args.num_minibatches /= 0

(* C4 (as claimed): once the KL break has ended a cycle's epoch loop the run does  *)
(* not fail, and when the driver is back at the update loop that cycle's metrics   *)
(* have all been written.                                                          *)
C4_KlBreakCompletesCycle ==
    broke => /\ pc /= "failed"
             /\ error = ""
             /\ (pc = "update" => emitted = update /\ scalars = ScalarsPerCycle)

(* C5 (as claimed): under a configuration whose batch_size is not a multiple of    *)
(* num_minibatches no rollout step and no optimizer step ever happens.             *)
C5_IndivisibleConfigNeverTrains ==
    Indivisible => /\ global_step = 0
                   /\ params = 0
                   /\ pc \notin {"rollout", "estimate", "epochs", "minibatch",
                                 "epoch_end", "metrics"}

(* C8 (as claimed): with annealing on, the learning rate of the last update cycle  *)
(* is 0.                                                                           *)
C8_LastCycleLrIsZero ==
    (InCycle /\ args.anneal_lr /\ update = num_updates) => lr.num = 0

(* C8 (amended): with annealing on, the learning rate of update cycle u is         *)
(* learning_rate * (num_updates - u + 1) / num_updates: the configured value in    *)
(* the first cycle, one step of learning_rate / num_updates less in each later     *)
(* cycle, and learning_rate / num_updates (not 0) in the last cycle.               *)
C8_LrAnnealsToOneStepAboveZero ==
    (InCycle /\ args.anneal_lr) =>
        /\ lr.den * args.learning_rate * (num_updates - update + 1) = lr.num * num_updates
        /\ (update = 1 => lr.num = lr.den * args.learning_rate)
        /\ (update = num_updates => lr.num * num_updates = lr.den * args.learning_rate)
        /\ lr.num > 0

C8_Witness ==
    /\ InCycle
    /\ args.anneal_lr
    /\ num_updates >= 3
    /\ update = num_updates

(* C9 (as claimed): a run on the training path, under a configuration whose batch  *)
(* divides evenly into minibatches, ends only after all total_timesteps //         *)
(* batch_size cycles have emitted their metrics; global_step is update *           *)
(* batch_size at a cycle's metrics and never exceeds total_timesteps.              *)
C9_RunsEveryCycle ==
    /\ global_step <= args.total_timesteps
    /\ (pc = "metrics" => global_step = update * args.batch_size)
    /\ (TakesTrainingPath(variant, args) /\ ~Indivisible /\ pc \in {"failed", "test", "done"}
            => /\ pc /= "failed"
               /\ emitted = args.total_timesteps \div args.batch_size)

(* Once a cycle's rollout is over every buffer row was written in that cycle and   *)
(* row i holds, for every environment, the observation that followed               *)
(* (update - 1) * num_steps + i environment steps.                                 *)
C10_RowsInvariant ==
    RolloutFinished =>
        \A i \in Rows :
            /\ stamp[i] = update
            /\ \A n \in Envs : obs[i][n] = ResetObs(n) + (update - 1) * args.num_steps + i

(* C10: after each rollout every one of the num_steps buffer rows was written in   *)
(* that rollout (none skipped, none twice), and the first row written in a later   *)
(* cycle is the (next_obs, next_done) pair the previous cycle's last envs.step     *)
(* returned.                                                                       *)
C10_SegmentsContiguous ==
    /\ []C10_RowsInvariant
    /\ [][(pc = "rollout" /\ step = 0 /\ update > 1)
            => (obs'[0] = last_ret.obs /\ dones'[0] = last_ret.done)]_vars

C10_Witness ==
    /\ pc = "estimate"
    /\ update = 2
    /\ args.num_steps = 2
    /\ dones[0] = [n \in Envs |-> 1]
    /\ dones[1] = [n \in Envs |-> 0]

LastStep == args.num_steps - 1

(* C11 (as claimed): after a rollout, row (i, n) holds the observation the action  *)
(* of step i was computed from and the done flag that same action produced.        *)
C11_RowHoldsFlagOfItsOwnAction ==
    RolloutFinished =>
        \A i \in Rows : \A n \in Envs :
            /\ StepObs(obs[i][n]) = (IF i = LastStep THEN next_obs[n] ELSE obs[i + 1][n])
            /\ dones[i][n] = term[i][n]

(* C11 (amended): after a rollout, row (i, n) holds the observation the action of  *)
(* step i was computed from and the done flag that arrived together with that     *)
(* observation, the one the action of step i - 1 produced (0 in the first row of   *)
(* the first cycle); the flag the action of step i produces is stored in row       *)
(* i + 1, and for the last step it is next_done.                                   *)
C11_RowHoldsFlagOfPreviousAction ==
    RolloutFinished =>
        \A i \in Rows : \A n \in Envs :
            /\ StepObs(obs[i][n]) = (IF i = LastStep THEN next_obs[n] ELSE obs[i + 1][n])
            /\ (i > 0 => dones[i][n] = term[i - 1][n])
            /\ (i = 0 /\ update = 1 => dones[i][n] = 0)
            /\ term[i][n] = (IF i = LastStep THEN next_done[n] ELSE dones[i + 1][n])

C11_Witness ==
    /\ pc = "estimate"
    /\ args.num_envs = 2
    /\ args.num_steps = 2
    /\ update = 1
    /\ term[0] = [n \in Envs |-> 1]
    /\ term[1] = [n \in Envs |-> 0]
    /\ dones[0] = [n \in Envs |-> 0]
    /\ dones[1] = [n \in Envs |-> 1]

(* the environments whose episode ended at the latest step *)
LastFinished == FinalInfo(last_ret.done, last_ret.truncated)

(* C12 (as claimed): the telemetry written at a rollout step covers every          *)
(* environment whose episode ended at that step.                                   *)
C12_EveryFinishedEpisodeReported ==
    (last_ret /= <<>>) => reported = LastFinished

(* C15: in every update cycle the first minibatch of the first epoch, which runs   *)
(* before any optimizer step of the cycle, finds logratio = 0, ratio = 1,          *)
(* approx_kl = 0 and a clip fraction of 0.                                         *)
C15_FirstMinibatchRatioIsOne ==
    (pc \in {"minibatch", "epoch_end"} /\ cycle_steps = 1) =>
        /\ logratio = <<0>>
        /\ Ratio(logratio[1]) = 1
        /\ approx_kl = <<0>>
        /\ clipfrac = <<0>>

C15_Witness ==
    /\ pc = "minibatch"
    /\ cycle_steps = 1
    /\ update = 2
    /\ params = 3
    /\ logratio = <<0>>

(* C16 (as claimed): the explained variance a cycle's metrics report was computed  *)
(* from that cycle's values and returns.                                           *)
C16_ExplainedVarIsOfThisCycle ==
    (pc = "update" /\ update >= 1 /\ scalars = ScalarsPerCycle) => explained_var = <<update>>

(* C18 (as claimed): in the Gaussian script the configured --train-flag decides    *)
(* the path: true (with tracking on) enters the training setup, false enters the   *)
(* evaluation rollouts.                                                            *)
C18_TrainFlagDecidesPath ==
    [][(pc = "main" /\ variant = "gaussian") =>
          /\ (args.train_flag /\ args.track => pc' = "setup")
          /\ (~args.train_flag => pc' = "test")]_vars

(* C17 (as claimed): a run that has saved the final parameters goes on to finish   *)
(* all ten evaluation rollouts.                                                    *)
C17_EvaluationRolloutsTerminate ==
    (saved = 1) ~> (pc = "done" /\ test_i = NumTests)

(* The parameters are the same throughout a rollout and its advantage estimation,  *)
(* the optimizer runs only after the whole rollout, on rows that all come from the *)
(* parameters the previous cycle left, and every minibatch made the four calls.    *)
C20_PhasesInvariant ==
    /\ (pc \in {"rollout", "estimate"} =>
           \A i \in Rows : i < step => logprobs[i] = LogProb(params))
    /\ (pc = "estimate" => step = args.num_steps)
    /\ (pc \in {"epochs", "minibatch", "epoch_end", "metrics"} =>
           /\ step = args.num_steps
           /\ \A i \in Rows : logprobs[i] = LogProb(params - cycle_steps))
    /\ (params > 0 => grad_ops = <<"zero_grad", "backward", "clip_grad_norm_", "step">>)

(* C20: the parameters change only at a minibatch's optimizer step, once per       *)
(* minibatch after zero_grad, backward and clip_grad_norm_; they are unchanged     *)
(* through rollout and advantage estimation; a cycle's rollout ends before its     *)
(* estimation and that before its first optimizer step; and a rollout uses the     *)
(* parameters the previous cycle's last optimizer step left.                       *)
C20_OnlyOptimizerStepsChangeParams ==
    /\ []C20_PhasesInvariant
    /\ [][/\ (params' /= params =>
                /\ pc = "minibatch"
                /\ params' = params + 1
                /\ grad_ops' = <<"zero_grad", "backward", "clip_grad_norm_", "step">>)
           /\ (pc = "rollout" => pc' \in {"rollout", "estimate"})
           /\ (pc = "estimate" => pc' = "epochs")
           /\ (pc = "minibatch" => params' = params + 1)]_vars

C20_Witness ==
    /\ pc = "rollout"
    /\ update = 2
    /\ step = 1
    /\ params = 2
    /\ logprobs[0] = 2

(***************************************************************************)
(* SpecOpt: the shuffled minibatch partition of one update cycle           *)
(***************************************************************************)
Min(a, b) == IF a <= b THEN a ELSE b

(* np.arange(n) *)
Arange(n) == [i \in 1..n |-> i - 1]

(* np.random.shuffle: the orders b_inds may be left in *)
Shuffles(b) ==
    { p \in [DOMAIN b -> {b[i] : i \in DOMAIN b}] :
        \A i, j \in DOMAIN b : i /= j => p[i] /= p[j] }

(* a faulty variant of Slice: the end index is taken inclusive *)
SliceInclusiveEnd(s, from, to) == SubSeq(s, from + 1, Min(to + 1, Len(s)))

(* s[from:to] *)
Slice(s, from, to) == SubSeq(s, from + 1, Min(to, Len(s)))

OptShapes == { sh \in EnvCounts \X (1..MaxSteps) : sh[1] * sh[2] <= MaxOptBatch }

OptArgSpace ==
    { ParseArgs([Defaults EXCEPT !.num_envs = sh[1], !.num_steps = sh[2],
                                 !.num_minibatches = nm, !.update_epochs = ue]) :
        sh \in OptShapes, nm \in 1..MaxMinibatches, ue \in 1..MaxEpochs }

InitOpt ==
    /\ variant \in Variants
    /\ args \in OptArgSpace
    /\ pc = "flatten"
    /\ error = ""
    /\ num_updates = 1
    /\ update = 1
    /\ lr = [num |-> args.learning_rate, den |-> 1]
    /\ step = args.num_steps
    /\ global_step = args.batch_size
    /\ next_obs = <<>>
    /\ next_done = <<>>
    /\ obs = <<>>
    /\ dones = <<>>
    /\ stamp = <<>>
    /\ epoch = 0
    /\ start = 0
    /\ approx_kl = <<>>
    /\ explained_var = <<>>
    /\ params = 0
    /\ cycle_steps = 0
    /\ broke = FALSE
    /\ emitted = 0
    /\ scalars = 0
    /\ saved = 0
    /\ test_i = 0
    /\ last_ret = <<>>
    /\ EstIdle
    /\ OptIdle
    /\ LossIdle
    /\ RollIdle
    /\ StepIdle
    /\ test_t = 0
    /\ AgentIdle

Flatten ==
    /\ pc = "flatten"
    /\ b_inds' = Arange(args.batch_size)
    /\ epoch' = 0
    /\ pc' = "epochs"
    /\ UNCHANGED <<estVars, lossVars, mb_inds, seen>>
    /\ UNCHANGED <<variant, args, error, num_updates, update, lr, step, global_step,
                   next_obs, next_done, obs, dones, stamp, start, approx_kl,
                   explained_var, params, cycle_steps, broke, emitted, scalars, saved,
                   test_i, last_ret>>
    /\ UNCHANGED <<rollVars, stepVars, testVars, agentVars>>

ShuffleEpoch ==
    /\ pc = "epochs"
    /\ epoch < args.update_epochs
    /\ b_inds' \in Shuffles(b_inds)
    /\ args.minibatch_size /= 0
    /\ start' = 0
    /\ seen' = <<>>
    /\ pc' = "minibatch"
    /\ UNCHANGED <<estVars, lossVars, mb_inds>>
    /\ UNCHANGED <<variant, args, error, num_updates, update, lr, step, global_step,
                   next_obs, next_done, obs, dones, stamp, epoch, approx_kl,
                   explained_var, params, cycle_steps, broke, emitted, scalars, saved,
                   test_i, last_ret>>
    /\ UNCHANGED <<rollVars, stepVars, testVars, agentVars>>

TakeMinibatch ==
    /\ pc = "minibatch"
    /\ start < args.batch_size
    /\ mb_inds' = Slice(b_inds, start, start + args.minibatch_size)
    /\ seen' = Append(seen, mb_inds')
    /\ params' = params + 1
    /\ cycle_steps' = cycle_steps + 1
    /\ start' = start + args.minibatch_size
    /\ pc' = IF start + args.minibatch_size < args.batch_size THEN "minibatch"
             ELSE "epoch_end"
    /\ UNCHANGED <<estVars, lossVars, b_inds>>
    /\ UNCHANGED <<variant, args, error, num_updates, update, lr, step, global_step,
                   next_obs, next_done, obs, dones, stamp, epoch, approx_kl,
                   explained_var, broke, emitted, scalars, saved, test_i, last_ret>>
    /\ UNCHANGED <<rollVars, stepVars, testVars, agentVars>>

NextOpt ==
    \/ Flatten
    \/ ShuffleEpoch
    \/ EpochRangeError
    \/ TakeMinibatch
    \/ EpochFinish
    \/ EpochsExhausted

SpecOpt == InitOpt /\ [][NextOpt]_vars

(* how often index i occurs in the slices taken so far in this epoch *)
Occurrences(i) ==
    Cardinality({ kj \in { <<k, j>> : k \in 1..Len(seen), j \in 1..args.batch_size } :
                    kj[2] <= Len(seen[kj[1]]) /\ seen[kj[1]][kj[2]] = i })

(* C1: when batch_size is a multiple of num_minibatches, an epoch takes exactly    *)
(* num_minibatches slices, slice k is the k-th run of batch_size / num_minibatches *)
(* consecutive entries of the shuffled b_inds, and every index 0..batch_size-1     *)
(* occurs in exactly one slice (in at most one while the epoch is under way).      *)
C1_MinibatchesPartitionBatch ==
    (~Indivisible /\ pc \in {"minibatch", "epoch_end"}) =>
        LET size == args.batch_size \div args.num_minibatches IN
        /\ \A k \in 1..Len(seen) :
              /\ Len(seen[k]) = size
              /\ seen[k] = [j \in 1..size |-> b_inds[(k - 1) * size + j]]
        /\ \A i \in 0..(args.batch_size - 1) : Occurrences(i) <= 1
        /\ pc = "epoch_end" =>
              /\ Len(seen) = args.num_minibatches
              /\ \A i \in 0..(args.batch_size - 1) : Occurrences(i) = 1

C1_Witness ==
    /\ pc = "epoch_end"
    /\ epoch = 1
    /\ args.batch_size = 4
    /\ args.num_minibatches = 2
    /\ b_inds = <<2, 0, 3, 1>>
    /\ seen = <<(<<2, 0>>), (<<3, 1>>)>>

(***************************************************************************)
(* SpecAdv: the advantage estimator on a finished rollout                  *)
(***************************************************************************)
LastRow == args.num_steps - 1

ZeroVec == [n \in Envs |-> 0]

ZeroTable == [i \in Rows |-> ZeroVec]

(* a faulty variant of NextNonterminal: the last row reads the buffer's own done flag *)
NextNonterminalFromBuffer(i) ==
    IF i = LastRow THEN [n \in Envs |-> 1 - dones[i][n]]
    ELSE [n \in Envs |-> 1 - dones[i + 1][n]]

NextNonterminal(i) ==
    IF i = LastRow THEN [n \in Envs |-> 1 - next_done[n]]
    ELSE [n \in Envs |-> 1 - dones[i + 1][n]]

(* a faulty variant of NextValues: below the last row the row's own value is read *)
NextValuesFromOwnRow(i) == IF i = LastRow THEN next_value ELSE values[i]

NextValues(i) == IF i = LastRow THEN next_value ELSE values[i + 1]

(* a faulty variant of GaeIter: the accumulated advantage is carried across episode ends *)
GaeIterCarriesAcrossDone(i, acc) ==
    LET nnt == NextNonterminal(i)
        delta == [n \in Envs |->
                    rewards[i][n] + args.gamma * NextValues(i)[n] * nnt[n] - values[i][n]]
        lgl == [n \in Envs |->
                    delta[n] + args.gamma * args.gae_lambda * acc.lastgaelam[n]]
    IN  [lastgaelam |-> lgl,
         advantages |-> [acc.advantages EXCEPT ![i] = lgl],
         nextnonterminal |-> nnt]

(* one iteration of the GAE loop at row i, from the loop state acc *)
GaeIter(i, acc) ==
    LET nnt == NextNonterminal(i)
        delta == [n \in Envs |->
                    rewards[i][n] + args.gamma * NextValues(i)[n] * nnt[n] - values[i][n]]
        lgl == [n \in Envs |->
                    delta[n] + args.gamma * args.gae_lambda * nnt[n] * acc.lastgaelam[n]]
    IN  [lastgaelam |-> lgl,
         advantages |-> [acc.advantages EXCEPT ![i] = lgl],
         nextnonterminal |-> nnt]

(* the loop state after the iterations LastRow, LastRow - 1, .., i *)
RECURSIVE GaePass(_)
GaePass(i) ==
    IF i = LastRow
    THEN GaeIter(i, [lastgaelam |-> ZeroVec, advantages |-> ZeroTable])
    ELSE GaeIter(i, GaePass(i + 1))

(* one iteration of the plain-return loop at row i, from the table rets *)
ReturnIter(i, rets) ==
    LET nnt == NextNonterminal(i)
        next_return == IF i = LastRow THEN next_value ELSE rets[i + 1]
    IN  [rets EXCEPT ![i] =
            [n \in Envs |-> rewards[i][n] + args.gamma * nnt[n] * next_return[n]]]

RECURSIVE ReturnPass(_)
ReturnPass(i) ==
    IF i = LastRow THEN ReturnIter(i, ZeroTable) ELSE ReturnIter(i, ReturnPass(i + 1))

TableAdd(a, b) == [i \in Rows |-> [n \in Envs |-> a[i][n] + b[i][n]]]

TableSub(a, b) == [i \in Rows |-> [n \in Envs |-> a[i][n] - b[i][n]]]

(* the advantages each branch produces on the buffer at hand *)
GaeAdvantages == GaePass(0).advantages

PlainAdvantages == TableSub(ReturnPass(0), values)

(* <<num_envs, num_steps>> of the buffers drawn *)
BufferShapes == { sh \in EnvCounts \X (1..MaxAdvSteps) : sh[1] * sh[2] <= MaxBatch }

(* gae_lambda is read by the GAE branch only: the plain-return branch keeps it at 1 *)
AdvArgSpace ==
    { a \in { ParseArgs([Defaults EXCEPT !.num_envs = sh[1], !.num_steps = sh[2],
                                         !.gae = g, !.gamma = gm, !.gae_lambda = lm]) :
                sh \in BufferShapes, g \in BOOLEAN, gm \in Coefs, lm \in Coefs } :
        a.gae \/ a.gae_lambda = 1 }

InitAdv ==
    /\ variant \in Variants
    /\ args \in AdvArgSpace
    /\ pc = "estimate"
    /\ error = ""
    /\ num_updates = 1
    /\ update = 1
    /\ lr = [num |-> args.learning_rate, den |-> 1]
    /\ step = args.num_steps
    /\ global_step = args.batch_size
    /\ next_obs = <<>>
    /\ next_done \in [Envs -> {0, 1}]
    /\ obs = <<>>
    /\ dones \in [Rows -> [Envs -> {0, 1}]]
    /\ stamp = <<>>
    /\ epoch = 0
    /\ start = 0
    /\ approx_kl = <<>>
    /\ explained_var = <<>>
    /\ params = 0
    /\ cycle_steps = 0
    /\ broke = FALSE
    /\ emitted = 0
    /\ scalars = 0
    /\ saved = 0
    /\ test_i = 0
    /\ last_ret = <<>>
    /\ rewards \in [Rows -> [Envs -> AdvVals]]
    /\ values \in [Rows -> [Envs -> AdvVals]]
    /\ next_value = <<>>
    /\ advantages = <<>>
    /\ returns = <<>>
    /\ lastgaelam = <<>>
    /\ nextnonterminal = <<>>
    /\ t = 0
    /\ OptIdle
    /\ LossIdle
    /\ RollIdle
    /\ StepIdle
    /\ test_t = 0
    /\ AgentIdle

GaeBegin ==
    /\ pc = "estimate"
    /\ args.gae
    /\ next_value' \in [Envs -> AdvVals]
    /\ advantages' = ZeroTable
    /\ lastgaelam' = ZeroVec
    /\ t' = LastRow
    /\ pc' = "gae"
    /\ UNCHANGED <<optVars, lossVars, rewards, values, returns, nextnonterminal>>
    /\ UNCHANGED <<variant, args, error, num_updates, update, lr, step, global_step,
                   next_obs, next_done, obs, dones, stamp, epoch, start, approx_kl,
                   explained_var, params, cycle_steps, broke, emitted, scalars, saved,
                   test_i, last_ret>>
    /\ UNCHANGED <<rollVars, stepVars, testVars, agentVars>>

GaeStep ==
    /\ pc = "gae"
    /\ LET r == GaeIter(t, [lastgaelam |-> lastgaelam, advantages |-> advantages]) IN
        /\ nextnonterminal' = r.nextnonterminal
        /\ lastgaelam' = r.lastgaelam
        /\ advantages' = r.advantages
    /\ t' = IF t = 0 THEN 0 ELSE t - 1
    /\ pc' = IF t = 0 THEN "gae_end" ELSE "gae"
    /\ UNCHANGED <<optVars, lossVars, rewards, values, next_value, returns>>
    /\ UNCHANGED <<variant, args, error, num_updates, update, lr, step, global_step,
                   next_obs, next_done, obs, dones, stamp, epoch, start, approx_kl,
                   explained_var, params, cycle_steps, broke, emitted, scalars, saved,
                   test_i, last_ret>>
    /\ UNCHANGED <<rollVars, stepVars, testVars, agentVars>>

GaeEnd ==
    /\ pc = "gae_end"
    /\ returns' = TableAdd(advantages, values)
    /\ pc' = "flatten"
    /\ UNCHANGED <<optVars, lossVars, rewards, values, next_value, advantages,
                   lastgaelam, nextnonterminal, t>>
    /\ UNCHANGED <<variant, args, error, num_updates, update, lr, step, global_step,
                   next_obs, next_done, obs, dones, stamp, epoch, start, approx_kl,
                   explained_var, params, cycle_steps, broke, emitted, scalars, saved,
                   test_i, last_ret>>
    /\ UNCHANGED <<rollVars, stepVars, testVars, agentVars>>

ReturnsBegin ==
    /\ pc = "estimate"
    /\ ~args.gae
    /\ next_value' \in [Envs -> AdvVals]
    /\ returns' = ZeroTable
    /\ t' = LastRow
    /\ pc' = "ret"
    /\ UNCHANGED <<optVars, lossVars, rewards, values, advantages, lastgaelam,
                   nextnonterminal>>
    /\ UNCHANGED <<variant, args, error, num_updates, update, lr, step, global_step,
                   next_obs, next_done, obs, dones, stamp, epoch, start, approx_kl,
                   explained_var, params, cycle_steps, broke, emitted, scalars, saved,
                   test_i, last_ret>>
    /\ UNCHANGED <<rollVars, stepVars, testVars, agentVars>>

ReturnStep ==
    /\ pc = "ret"
    /\ nextnonterminal' = NextNonterminal(t)
    /\ returns' = ReturnIter(t, returns)
    /\ t' = IF t = 0 THEN 0 ELSE t - 1
    /\ pc' = IF t = 0 THEN "ret_end" ELSE "ret"
    /\ UNCHANGED <<optVars, lossVars, rewards, values, next_value, advantages,
                   lastgaelam>>
    /\ UNCHANGED <<variant, args, error, num_updates, update, lr, step, global_step,
                   next_obs, next_done, obs, dones, stamp, epoch, start, approx_kl,
                   explained_var, params, cycle_steps, broke, emitted, scalars, saved,
                   test_i, last_ret>>
    /\ UNCHANGED <<rollVars, stepVars, testVars, agentVars>>

ReturnsEnd ==
    /\ pc = "ret_end"
    /\ advantages' = TableSub(returns, values)
    /\ pc' = "flatten"
    /\ UNCHANGED <<optVars, lossVars, rewards, values, next_value, returns, lastgaelam,
                   nextnonterminal, t>>
    /\ UNCHANGED <<variant, args, error, num_updates, update, lr, step, global_step,
                   next_obs, next_done, obs, dones, stamp, epoch, start, approx_kl,
                   explained_var, params, cycle_steps, broke, emitted, scalars, saved,
                   test_i, last_ret>>
    /\ UNCHANGED <<rollVars, stepVars, testVars, agentVars>>

NextAdv ==
    \/ GaeBegin
    \/ GaeStep
    \/ GaeEnd
    \/ ReturnsBegin
    \/ ReturnStep
    \/ ReturnsEnd

SpecAdv == InitAdv /\ [][NextAdv]_vars

(* the GAE loop has just run its first iteration, the one at the last row *)
JustAfterLastRow ==
    \/ pc = "gae" /\ t = LastRow - 1
    \/ pc = "gae_end" /\ LastRow = 0

(* the advantage of the last row has been computed *)
LastRowComputed ==
    \/ JustAfterLastRow
    \/ pc \in {"gae_end", "flatten"}
    \/ (pc = "gae" /\ t < LastRow)

AllDoneAtEnd == \A n \in Envs : next_done[n] = 1

(* C2: in GAE mode, when every environment is done after the last rollout step,    *)
(* nextnonterminal is 0 in the iteration at the last row and the advantage of the  *)
(* last row is reward - value for every environment, whatever next_value is.       *)
C2_TerminalEndDropsBootstrap ==
    (args.gae /\ AllDoneAtEnd) =>
        /\ JustAfterLastRow => nextnonterminal = ZeroVec
        /\ LastRowComputed
              => \A n \in Envs :
                    advantages[LastRow][n] = rewards[LastRow][n] - values[LastRow][n]

C2_Witness ==
    /\ pc = "flatten"
    /\ args.gae
    /\ args.gamma = 1
    /\ args.num_envs = 2
    /\ AllDoneAtEnd
    /\ next_value = <<1, 1>>
    /\ advantages[LastRow] = <<1, -1>>

ZeroRewards == \A i \in Rows : \A n \in Envs : rewards[i][n] = 0

(* C3: with gamma = 1, gae_lambda = 1 and all rewards zero, the advantages the run *)
(* ends with equal, row by row, those of the other branch on the same buffer, done *)
(* flags and bootstrap value: GAE against plain return minus value and conversely. *)
C3_GaeMatchesPlainReturn ==
    (pc = "flatten" /\ args.gamma = 1 /\ args.gae_lambda = 1 /\ ZeroRewards) =>
        /\ args.gae => advantages = PlainAdvantages
        /\ ~args.gae => advantages = GaeAdvantages

C3_Witness ==
    /\ pc = "flatten"
    /\ args.gae
    /\ args.gamma = 1
    /\ args.gae_lambda = 1
    /\ ZeroRewards
    /\ args.num_steps = 3
    /\ dones[1] = <<1>>
    /\ dones[2] = <<0>>
    /\ next_done = <<0>>
    /\ values = (0 :> <<1>> @@ 1 :> <<0>> @@ 2 :> <<1>>)
    /\ next_value = <<1>>
    /\ advantages = (0 :> <<-1>> @@ 1 :> <<1>> @@ 2 :> <<0>>)

(* C19: after the GAE pass, for every row t and environment n,                     *)
(* advantage[t] = delta[t] + gamma * gae_lambda * nextnonterminal * advantage[t+1] *)
(* with delta[t] = reward[t] + gamma * nextvalue * nextnonterminal - value[t], the *)
(* accumulator 0 above the last row, nextvalue / nextnonterminal the bootstrap     *)
(* value and 1 - next_done at the last row and values[t+1], 1 - dones[t+1] below   *)
(* it, and return[t] = advantage[t] + value[t]; the pass ends without an error,    *)
(* also for gamma = 0, gae_lambda = 0 and all-terminal segments.                   *)
C19_GaeRecurrence ==
    /\ error = ""
    /\ (pc = "flatten" /\ args.gae) =>
          \A i \in Rows : \A n \in Envs :
              LET nnt == IF i = LastRow THEN 1 - next_done[n] ELSE 1 - dones[i + 1][n]
                  nv == IF i = LastRow THEN next_value[n] ELSE values[i + 1][n]
                  above == IF i = LastRow THEN 0 ELSE advantages[i + 1][n]
                  delta == rewards[i][n] + args.gamma * nv * nnt - values[i][n]
              IN  /\ advantages[i][n] = delta + args.gamma * args.gae_lambda * nnt * above
                  /\ returns[i][n] = advantages[i][n] + values[i][n]

C19_Witness ==
    /\ pc = "flatten"
    /\ args.gae
    /\ args.gamma = 1
    /\ args.gae_lambda = 1
    /\ args.num_envs = 1
    /\ args.num_steps = 3
    /\ rewards = (0 :> <<1>> @@ 1 :> <<1>> @@ 2 :> <<1>>)
    /\ values = (0 :> <<0>> @@ 1 :> <<1>> @@ 2 :> <<0>>)
    /\ dones[1] = <<0>>
    /\ dones[2] = <<0>>
    /\ next_done = <<0>>
    /\ next_value = <<1>>
    /\ advantages = (0 :> <<4>> @@ 1 :> <<2>> @@ 2 :> <<2>>)
    /\ returns = (0 :> <<4>> @@ 1 :> <<3>> @@ 2 :> <<2>>)

(***************************************************************************)
(* The rollout's done flags as the estimator reads them (under Spec)       *)
(***************************************************************************)
(* the environments whose latest step ended the episode by truncation only *)
TruncatedOnly == {n \in Envs : last_ret.truncated[n] = 1 /\ last_ret.done[n] = 0}

(* After an envs.step, next_done is the terminated output whatever the truncated   *)
(* output was; for a truncated episode it is 0 and the estimator's last row gets   *)
(* nextnonterminal = 1.                                                            *)
C21_NextDoneIsTerminatedOutput ==
    (last_ret /= <<>>) =>
        /\ \A n \in Envs :
              /\ next_done[n] = last_ret.done[n]
              /\ (pc = "estimate" => NextNonterminal(LastRow)[n] = 1 - last_ret.done[n])
        /\ \A n \in TruncatedOnly :
              /\ next_done[n] = 0
              /\ (pc = "estimate" => NextNonterminal(LastRow)[n] = 1)

(* The rollout step that follows stores that flag in its row: the row holds the    *)
(* terminated output of the step before it, 0 for a truncated episode, and the     *)
(* recursion at the row below reads nextnonterminal = 1 from it.                   *)
C21_RowStoresTerminatedOutput ==
    (pc = "rollout" /\ last_ret /= <<>>) =>
        /\ \A n \in Envs : dones'[step][n] = last_ret.done[n]
        /\ \A n \in TruncatedOnly : \A i \in Rows :
              (i = step - 1) => NextNonterminal(i)'[n] = 1

(* C21: the done flag stored in the buffer and used as next_done comes from the    *)
(* terminated output of envs.step alone; the truncated output is discarded, so     *)
(* after an episode that ended by truncation the flag is 0 and the advantage /     *)
(* return recursion runs across that boundary with nextnonterminal = 1, which by   *)
(* GaeIter and ReturnIter carries the next row's value and accumulated advantage.  *)
C21_TruncationLeavesFlagZero ==
    /\ []C21_NextDoneIsTerminatedOutput
    /\ [][C21_RowStoresTerminatedOutput]_vars

C21_Witness ==
    /\ pc = "estimate"
    /\ args.num_envs = 2
    /\ args.num_steps = 2
    /\ last_ret.truncated = [n \in Envs |-> 1]
    /\ last_ret.done = [n \in Envs |-> 0]
    /\ next_done = [n \in Envs |-> 0]
    /\ dones[1] = [n \in Envs |-> 0]
    /\ NextNonterminal(0) = [n \in Envs |-> 1]
    /\ NextNonterminal(LastRow) = [n \in Envs |-> 1]

(***************************************************************************)
(* SpecLoss: the value loss of one minibatch                               *)
(***************************************************************************)
Sq(x) == x * x

Max(a, b) == IF a >= b THEN a ELSE b

(* torch.clamp *)
Clamp(x, lo, hi) == IF x < lo THEN lo ELSE IF x > hi THEN hi ELSE x

(* arr[inds] for an index sequence inds *)
Gather(arr, inds) == [j \in 1..Len(inds) |-> arr[inds[j]]]

RECURSIVE SumSeq(_)
SumSeq(q) == IF q = <<>> THEN 0 ELSE Head(q) + SumSeq(Tail(q))

(* q.mean() as a fraction *)
Mean(q) == [num |-> SumSeq(q), den |-> Len(q)]

(* 0.5 * f *)
Half(f) == [num |-> f.num, den |-> 2 * f.den]

RatLess(a, b) == a.num * b.den < b.num * a.den

(* torch.max(a, b), elementwise *)
ElemMax(a, b) == [j \in 1..Len(a) |-> Max(a[j], b[j])]

SqErr(a, b) == [j \in 1..Len(a) |-> Sq(a[j] - b[j])]

VClipped(nv, val, c) == [j \in 1..Len(nv) |-> val[j] + Clamp(nv[j] - val[j], -c, c)]

(* the clip_vloss branch; ret and val are b_returns[mb_inds] and b_values[mb_inds] *)
ClippedValueLoss(v, nv, ret, val, c) ==
    LET v_loss_unclipped == SqErr(nv, ret)
        v_clipped == VClipped(nv, val, c)
        v_loss_clipped == IF v = "gaussian" THEN SqErr(v_clipped, ret)
                          ELSE SqErr(v_clipped, val)
        v_loss_max == ElemMax(v_loss_unclipped, v_loss_unclipped)
    IN  Half(Mean(v_loss_max))

(* the else branch *)
PlainValueLoss(v, nv, ret, val) ==
    IF v = "gaussian" THEN Half(Mean(SqErr(nv, ret))) ELSE Half(Mean(SqErr(nv, val)))

LossShapes == { sh \in EnvCounts \X (1..MaxSteps) : sh[1] * sh[2] <= MaxLossBatch }

LossArgSpace ==
    { a \in { ParseArgs([Defaults EXCEPT !.num_envs = sh[1], !.num_steps = sh[2],
                                         !.num_minibatches = nm, !.clip_vloss = cv,
                                         !.clip_coef = cc]) :
                sh \in LossShapes, nm \in 1..MaxMinibatches, cv \in BOOLEAN,
                cc \in ClipCoefs } :
        a.minibatch_size >= 1 }

BatchIndex == 0..(args.batch_size - 1)

(* the values range(0, batch_size, minibatch_size) yields *)
Starts == { k \in BatchIndex : k % args.minibatch_size = 0 }

(* The optimizer loop has taken the slice mb_inds of a shuffled b_inds. *)
InitLoss ==
    /\ variant \in Variants
    /\ args \in LossArgSpace
    /\ pc = "minibatch"
    /\ error = ""
    /\ num_updates = 1
    /\ update = 1
    /\ lr = [num |-> args.learning_rate, den |-> 1]
    /\ step = args.num_steps
    /\ global_step = args.batch_size
    /\ next_obs = <<>>
    /\ next_done = <<>>
    /\ obs = <<>>
    /\ dones = <<>>
    /\ stamp = <<>>
    /\ epoch = 0
    /\ start \in Starts
    /\ approx_kl = <<>>
    /\ explained_var = <<>>
    /\ params = 0
    /\ cycle_steps = 0
    /\ broke = FALSE
    /\ emitted = 0
    /\ scalars = 0
    /\ saved = 0
    /\ test_i = 0
    /\ last_ret = <<>>
    /\ EstIdle
    /\ b_inds \in Shuffles(Arange(args.batch_size))
    /\ mb_inds = Slice(b_inds, start, start + args.minibatch_size)
    /\ seen = <<>>
    /\ newvalue = <<>>
    /\ b_returns \in [BatchIndex -> 0..MaxValue]
    /\ b_values \in [BatchIndex -> 0..MaxValue]
    /\ v_loss = <<>>
    /\ RollIdle
    /\ StepIdle
    /\ test_t = 0
    /\ AgentIdle

ClippedLossStep ==
    /\ pc = "minibatch"
    /\ args.clip_vloss
    /\ newvalue' \in [1..Len(mb_inds) -> 0..MaxValue]
    /\ v_loss' = ClippedValueLoss(variant, newvalue', Gather(b_returns, mb_inds),
                                  Gather(b_values, mb_inds), args.clip_coef)
    /\ pc' = "backward"
    /\ UNCHANGED <<estVars, optVars, b_returns, b_values>>
    /\ UNCHANGED <<variant, args, error, num_updates, update, lr, step, global_step,
                   next_obs, next_done, obs, dones, stamp, epoch, start, approx_kl,
                   explained_var, params, cycle_steps, broke, emitted, scalars, saved,
                   test_i, last_ret>>
    /\ UNCHANGED <<rollVars, stepVars, testVars, agentVars>>

PlainLossStep ==
    /\ pc = "minibatch"
    /\ ~args.clip_vloss
    /\ newvalue' \in [1..Len(mb_inds) -> 0..MaxValue]
    /\ v_loss' = PlainValueLoss(variant, newvalue', Gather(b_returns, mb_inds),
                                Gather(b_values, mb_inds))
    /\ pc' = "backward"
    /\ UNCHANGED <<estVars, optVars, b_returns, b_values>>
    /\ UNCHANGED <<variant, args, error, num_updates, update, lr, step, global_step,
                   next_obs, next_done, obs, dones, stamp, epoch, start, approx_kl,
                   explained_var, params, cycle_steps, broke, emitted, scalars, saved,
                   test_i, last_ret>>
    /\ UNCHANGED <<rollVars, stepVars, testVars, agentVars>>

NextLoss ==
    \/ ClippedLossStep
    \/ PlainLossStep

SpecLoss == InitLoss /\ [][NextLoss]_vars

MbReturns == Gather(b_returns, mb_inds)

MbValues == Gather(b_values, mb_inds)

(* C6 (as claimed): with value clipping on, v_loss is 0.5 times the mean over the  *)
(* minibatch of max((newvalue - return)^2, (v_clipped - return)^2), v_clipped      *)
(* being value + clamp(newvalue - value, -clip_coef, clip_coef); so it exceeds the *)
(* unclipped loss whenever some sample's clipped error exceeds its unclipped one.  *)
C6_ClippedLossIsPessimisticMax ==
    (pc = "backward" /\ args.clip_vloss) =>
        LET unclipped == SqErr(newvalue, MbReturns)
            clipped == SqErr(VClipped(newvalue, MbValues, args.clip_coef), MbReturns)
        IN  /\ RatEq(v_loss, Half(Mean(ElemMax(unclipped, clipped))))
            /\ (\E j \in 1..Len(newvalue) : clipped[j] > unclipped[j])
                  => RatLess(Half(Mean(unclipped)), v_loss)

(* C7 (as claimed): with value clipping off, in either script v_loss is 0.5 times  *)
(* the mean of (newvalue - b_returns[mb_inds])^2.                                  *)
C7_PlainLossIsHalfMseOfReturns ==
    (pc = "backward" /\ ~args.clip_vloss) =>
        RatEq(v_loss, Half(Mean(SqErr(newvalue, MbReturns))))

(***************************************************************************)
(* SpecAgent: Agent.get_action_and_value of the Beta script                *)
(***************************************************************************)
(* alpha and beta as the two networks produce them *)
ParamKinds == {"finite", "nan", "inf"}

(* n / d rounded to the nearest integer (d > 0) *)
Round(n, d) == (2 * n + d) \div (2 * d)

(* a * b and a / b of two numbers kept to 1 / Resolution, rounded as a float *)
(* product or quotient is rounded to its format                              *)
Mul(a, b) == Round(a * b, Resolution)

Div(a, b) == Round(a * Resolution, b)

(* a faulty variant of ScaleByActionBounds: the lower bound is not added *)
ScaleWithoutOffset(x, low, high) == Mul(x, high - low)

ScaleByActionBounds(x, low, high) == Mul(x, high - low) + low

InvScaleByActionBounds(a, low, high) == Div(a - low, high - low)

(* torch.isnan(alpha).any() or torch.isnan(beta).any() or torch.isinf(...) *)
NonFinite(al, be) == al /= "finite" \/ be /= "finite"

(* what the branch under that test writes: the weights of the two networks *)
LogOfCheck(al, be) == IF NonFinite(al, be) THEN "network parameters" ELSE ""

(* Beta(alpha, beta): the library's argument validation rejects NaN when it is *)
(* enabled and accepts +Inf; the script neither enables nor disables it        *)
BetaOutcomes(al, be) ==
    IF al = "nan" \/ be = "nan" THEN {"ValueError", "constructed"} ELSE {"constructed"}

(* the Beta distribution's support on the grid *)
UnitInterval == 0..Resolution

ActionBounds ==
    { b \in (-MaxBound..MaxBound) \X (-MaxBound..MaxBound) : b[1] < b[2] }

InitAgent ==
    /\ variant = "beta"
    /\ args = ParseArgs(Defaults)
    /\ pc = "sample"
    /\ error = ""
    /\ num_updates = 1
    /\ update = 1
    /\ lr = [num |-> args.learning_rate, den |-> 1]
    /\ step = 0
    /\ global_step = 0
    /\ next_obs = <<>>
    /\ next_done = <<>>
    /\ obs = <<>>
    /\ dones = <<>>
    /\ stamp = <<>>
    /\ epoch = 0
    /\ start = 0
    /\ approx_kl = <<>>
    /\ explained_var = <<>>
    /\ params = 0
    /\ cycle_steps = 0
    /\ broke = FALSE
    /\ emitted = 0
    /\ scalars = 0
    /\ saved = 0
    /\ test_i = 0
    /\ last_ret = <<>>
    /\ EstIdle
    /\ OptIdle
    /\ LossIdle
    /\ RollIdle
    /\ StepIdle
    /\ test_t = 0
    /\ alpha \in ParamKinds
    /\ beta \in ParamKinds
    /\ \E b \in ActionBounds :
         /\ action_space_low = b[1]
         /\ action_space_high = b[2]
    /\ sample = <<>>
    /\ action = <<>>
    /\ logprob_arg = <<>>
    /\ probs = <<>>
    /\ logged = ""

(* get_action_and_value(x): the call of the rollout, action is None *)
SampleCall ==
    /\ pc = "sample"
    /\ logged' = LogOfCheck(alpha, beta)
    /\ \E outcome \in BetaOutcomes(alpha, beta) :
         IF outcome = "ValueError"
         THEN /\ error' = "ValueError"
              /\ pc' = "failed"
              /\ UNCHANGED <<probs, sample, action, logprob_arg>>
         ELSE /\ probs' = <<alpha, beta>>
              /\ error' = error
              /\ IF NonFinite(alpha, beta)
                 THEN /\ pc' = "returned"
                      /\ UNCHANGED <<sample, action, logprob_arg>>
                 ELSE /\ \E x \in UnitInterval :
                           /\ sample' = <<x>>
                           /\ action' = <<ScaleByActionBounds(x, action_space_low,
                                                              action_space_high)>>
                      /\ logprob_arg' = <<InvScaleByActionBounds(action'[1], action_space_low,
                                                                 action_space_high)>>
                      /\ pc' = "evaluate"
    /\ UNCHANGED <<estVars, optVars, lossVars>>
    /\ UNCHANGED <<variant, args, num_updates, update, lr, step, global_step,
                   next_obs, next_done, obs, dones, stamp, epoch, start, approx_kl,
                   explained_var, params, cycle_steps, broke, emitted, scalars, saved,
                   test_i, last_ret>>
    /\ UNCHANGED <<rollVars, stepVars, testVars, alpha, beta, action_space_low,
                   action_space_high>>

(* get_action_and_value(x, action): the call of the optimizer loop on the stored action *)
EvaluateCall ==
    /\ pc = "evaluate"
    /\ logged' = LogOfCheck(alpha, beta)
    /\ probs' = <<alpha, beta>>
    /\ logprob_arg' = <<InvScaleByActionBounds(action[1], action_space_low,
                                               action_space_high)>>
    /\ pc' = "returned"
    /\ UNCHANGED <<estVars, optVars, lossVars>>
    /\ UNCHANGED <<variant, args, error, num_updates, update, lr, step, global_step,
                   next_obs, next_done, obs, dones, stamp, epoch, start, approx_kl,
                   explained_var, params, cycle_steps, broke, emitted, scalars, saved,
                   test_i, last_ret>>
    /\ UNCHANGED <<rollVars, stepVars, testVars, alpha, beta, action_space_low,
                   action_space_high, sample, action>>

NextAgent ==
    \/ SampleCall
    \/ EvaluateCall

SpecAgent == InitAgent /\ [][NextAgent]_vars

CallMade == pc \in {"evaluate", "returned", "failed"}

(* C13 (as claimed): when alpha or beta is NaN or infinite the call reports the     *)
(* offending alpha/beta values and no Beta distribution is built from them.         *)
C13_NonFiniteParamsStopTheCall ==
    (CallMade /\ NonFinite(alpha, beta)) =>
        /\ logged = "alpha and beta"
        /\ probs = <<>>

=============================================================================
